---- MODULE Spec2Model ----
(***************************************************************************)
(* Model of mm_streamlit.py: a Streamlit script that loads a CSV of        *)
(* college basketball team seasons, cleans it, and renders an overview, a  *)
(* missing-value map, a correlation heatmap, a histogram and a scatter     *)
(* plot.  The Streamlit runtime reruns the whole script on every dropdown  *)
(* change; the three selectbox values live in the session's widget state.  *)
(*                                                                         *)
(* A cell of a table is a sequence: << >> is a missing value (NaN), <<v>>  *)
(* holds the value v.  Numeric values are small integers (model units).    *)
(* A table is [columns: sequence of names, rows: sequence of               *)
(* [idx: the pandas index label, cells: column name -> cell]].             *)
(***************************************************************************)
EXTENDS Integers, Sequences, FiniteSets, TLC

VARIABLES
    file,         \* the CSV file read at line 15 (never written by the script)
    plot_col,     \* session widget state of the histogram selectbox (line 108)
    x_sc,         \* session widget state of the X-axis selectbox (line 120)
    y_sc,         \* session widget state of the Y-axis selectbox (line 121)
    status,       \* "idle" before the first run, then "ok" or "error"
    exception,    \* << >> or <<name>>: the uncaught exception the runtime shows
    overview,     \* << >> or <<[shape, head, describe]>> (lines 18-22)
    missing_map,  \* << >> or <<[frame, nan_array, xticks, yticklabels]>> (44-59)
    mm_sub,       \* << >> or <<table>>: mm_sub after line 62
    heatmap,      \* << >> or <<[z, x, y]>> (lines 81-100)
    fig_hist,     \* << >> or <<[x, nbins, values]>> (line 113)
    fig_scatter,  \* << >> or <<[x, y, points]>> (lines 124-137)
    picked        \* the option the user last picked in each dropdown of this
                  \* session, << >> for a dropdown never touched

vars == <<file, plot_col, x_sc, y_sc, status, exception, overview,
          missing_map, mm_sub, heatmap, fig_hist, fig_scatter, picked>>

(***************************************************************************)
(* Bounds of the model.                                                    *)
(***************************************************************************)
MaxRows == 2

MaxTickRows == 24

NaN == << >>

(***************************************************************************)
(* Column names.                                                           *)
(***************************************************************************)
\* The labels of the .loc projection at lines 26-27.
LocColumns ==
    << "Season", "Mapped ESPN Team Name", "Adjusted Offensive Efficiency",
       "Adjusted Defensive Efficiency", "eFGPct", "TOPct", "AdjTempo",
       "PGOR", "PGDR", "Tournament Winner?", "Post-Season Tournament" >>

\* The labels of the projection at lines 29-30.
SubColumns ==
    << "Season", "Mapped ESPN Team Name", "Adjusted Offensive Efficiency",
       "Adjusted Defensive Efficiency", "eFGPct", "TOPct", "AdjTempo",
       "PGOR", "PGDR", "Post-Season Tournament" >>

\* Faulty variant of RenameColumn: the key of AdjOE is misspelt, so that
\* column keeps its long name.
RenameColumnTypo(c) ==
    CASE c = "Adjusted Defensive Efficiency" -> "AdjDE"
      [] c = "Post-Season Tournament" -> "March Madness?"
      [] c = "Mapped ESPN Team Name" -> "School"
      [] OTHER -> c

\* The rename map of lines 34-39; a column it does not name keeps its name.
RenameColumn(c) ==
    CASE c = "Adjusted Offensive Efficiency" -> "AdjOE"
      [] c = "Adjusted Defensive Efficiency" -> "AdjDE"
      [] c = "Post-Season Tournament" -> "March Madness?"
      [] c = "Mapped ESPN Team Name" -> "School"
      [] OTHER -> c

\* Line 81.
selected_features ==
    << "eFGPct", "TOPct", "AdjTempo", "AdjOE", "AdjDE", "PGOR", "PGDR",
       "March Madness?" >>

\* Lines 105-106.
opts ==
    << "AdjOE", "AdjDE", "eFGPct", "TOPct", "AdjTempo", "PGOR", "PGDR",
       "March Madness?" >>

Range(s) == { s[i] : i \in 1..Len(s) }

Min(a, b) == IF a < b THEN a ELSE b

(***************************************************************************)
(* Table operations (pandas).                                              *)
(***************************************************************************)
\* pd.read_csv, line 15: the default RangeIndex labels the rows 0, 1, ...
ReadCsv(f) ==
    [columns |-> f.columns,
     rows |-> [i \in 1..Len(f.rows) |-> [idx |-> i - 1, cells |-> f.rows[i]]]]

\* A cell lookup; a label the row does not carry reads as missing.
Cell(r, c) == IF c \in DOMAIN r.cells THEN r.cells[c] ELSE NaN

\* df[labels] / the column part of df.loc[:, labels].
Project(df, labels) ==
    [columns |-> labels,
     rows |-> [i \in 1..Len(df.rows) |->
                 [idx |-> df.rows[i].idx,
                  cells |-> [c \in Range(labels) |-> Cell(df.rows[i], c)]]]]


\* Boolean row selection, df[mask]: the rows whose mask is True, in order,
\* each keeping its index label.
RECURSIVE KeepFrom(_, _, _)
KeepFrom(rows, mask, i) ==
    IF i > Len(rows) THEN << >>
    ELSE (IF mask[i] THEN <<rows[i]>> ELSE << >>) \o KeepFrom(rows, mask, i + 1)

Keep(df, mask) ==
    [columns |-> df.columns, rows |-> KeepFrom(df.rows, mask, 1)]

\* Faulty variant of KeyErrorAtLoc: only the mask's column is required, and
\* .loc fills a label that is not a column with missing values.
KeyErrorOnMaskOnly(mm) == "Tournament Winner?" \notin Range(mm.columns)

\* Line 25: mm['Tournament Winner?'] and .loc[mask, labels] raise KeyError
\* when a label is not a column of mm.
KeyErrorAtLoc(mm) ==
    \E c \in Range(LocColumns) : c \notin Range(mm.columns)

\* Lines 25-27: mm.loc[mm['Tournament Winner?'] == 'No', labels].
\* A missing value compares unequal to 'No'.
LocNotWinner(mm) ==
    Project(Keep(mm, [i \in 1..Len(mm.rows) |->
                        Cell(mm.rows[i], "Tournament Winner?") = <<"No">>]),
            LocColumns)

\* Line 32: (eFGPct != 0) & (Adjusted Defensive Efficiency != 0).
\* A missing value compares unequal to 0, so the row is kept.
DropZeroRows(df) ==
    Keep(df, [i \in 1..Len(df.rows) |->
                /\ Cell(df.rows[i], "eFGPct") # <<0>>
                /\ Cell(df.rows[i], "Adjusted Defensive Efficiency") # <<0>>])

\* Lines 34-39: rename(columns=..., inplace=True).
Rename(df) ==
    LET new == [k \in 1..Len(df.columns) |-> RenameColumn(df.columns[k])]
        Old(c2) == CHOOSE c \in Range(df.columns) : RenameColumn(c) = c2
    IN  [columns |-> new,
         rows |-> [i \in 1..Len(df.rows) |->
                     [idx |-> df.rows[i].idx,
                      cells |-> [c2 \in Range(new) |->
                                   Cell(df.rows[i], Old(c2))]]]]

\* Faulty variant of MarchMadnessLabel: any postseason tournament counts.
AnyTournamentLabel(cell) == IF cell # NaN THEN <<1>> ELSE <<0>>

\* Line 41: (mm_sub['March Madness?'] == 'March Madness').astype(int).
MarchMadnessLabel(cell) == IF cell = <<"March Madness">> THEN <<1>> ELSE <<0>>

DeriveLabel(df) ==
    [columns |-> df.columns,
     rows |-> [i \in 1..Len(df.rows) |->
                 [idx |-> df.rows[i].idx,
                  cells |-> [df.rows[i].cells EXCEPT
                               !["March Madness?"] = MarchMadnessLabel(@)]]]]

\* Line 62: the season threshold.
SeasonCutoff == 2006

\* Faulty variant of SeasonAfterCutoff: the 2006 season is kept.
SeasonFromCutoff(cell) == cell # NaN /\ cell[1] >= SeasonCutoff

\* Line 62: mm_sub[mm_sub['Season'] > 2006]; a missing Season compares False.
SeasonAfterCutoff(cell) == cell # NaN /\ cell[1] > SeasonCutoff

\* Faulty variant of FilterSeason: rows with a zero in the column the
\* histogram dropdown holds are dropped too.
FilterSeasonAndSelected(df) ==
    Keep(df, [i \in 1..Len(df.rows) |->
                /\ SeasonAfterCutoff(Cell(df.rows[i], "Season"))
                /\ plot_col # << >> => Cell(df.rows[i], plot_col[1]) # <<0>>])

FilterSeason(df) ==
    Keep(df, [i \in 1..Len(df.rows) |->
                SeasonAfterCutoff(Cell(df.rows[i], "Season"))])

\* Faulty variant of CleanBeforeSeason: the Season filter runs before the
\* missing-value map is drawn.
CleanWithSeason(mm) == FilterSeason(DeriveLabel(Rename(DropZeroRows(
                           Project(LocNotWinner(mm), SubColumns)))))

\* Lines 25-41: mm_sub as it stands when the missing-value map is drawn.
CleanBeforeSeason(mm) == DeriveLabel(Rename(DropZeroRows(
                             Project(LocNotWinner(mm), SubColumns))))

(***************************************************************************)
(* Missing-value map, lines 46-57.                                         *)
(***************************************************************************)
\* Lines 46-47: isna().astype(int).to_numpy(), one row of 0/1 per table row.
NanArray(df) ==
    [i \in 1..Len(df.rows) |->
       [k \in 1..Len(df.columns) |->
          IF Cell(df.rows[i], df.columns[k]) = NaN THEN 1 ELSE 0]]

\* Line 57: the most x ticks drawn.
MaxXTicks == 10

\* np.linspace(start, stop, num).astype(int) for 0 <= start: sample k is
\* start + k * (stop - start) / (num - 1), the last sample is stop itself,
\* and astype(int) truncates.  With num <= 10 the divisor is at most 9: a
\* sample whose exact value is an integer is computed exactly in double
\* precision and every other sample lies at least 1/9 from an integer, so
\* truncating the exact quotient gives numpy's value.
LinspaceInt(start, stop, num) ==
    [k \in 1..num |->
       IF num = 1 THEN start
       ELSE IF k = num THEN stop
       ELSE start + ((k - 1) * (stop - start)) \div (num - 1)]

\* Faulty variant of XTicks: one tick per row, without the cap.
XTicksEveryRow(num_mm) == LinspaceInt(0, num_mm - 1, num_mm)

\* Lines 56-57.
XTicks(num_mm) == LinspaceInt(0, num_mm - 1, Min(MaxXTicks, num_mm))

MissingMap(df) ==
    [frame |-> df,
     nan_array |-> NanArray(df),
     yticklabels |-> df.columns,
     xticks |-> XTicks(Len(df.rows))]

(***************************************************************************)
(* Correlation heatmap, lines 81-92.                                       *)
(***************************************************************************)
RECURSIVE SumSeq(_)
SumSeq(s) == IF s = << >> THEN 0 ELSE Head(s) + SumSeq(Tail(s))

\* round(3) at line 84 keeps thousandths.
Scale == 10 * 10 * 10

\* The largest k in lo..hi with (2k - 1) / (2 * Scale) <= |c| / sqrt(v);
\* lo always satisfies it.
RECURSIVE Bisect(_, _, _, _)
Bisect(c, v, lo, hi) ==
    IF lo = hi THEN lo
    ELSE LET mid == (lo + hi + 1) \div 2
         IN  IF (2 * mid - 1) * (2 * mid - 1) * v <= 4 * Scale * Scale * c * c
             THEN Bisect(c, v, mid, hi)
             ELSE Bisect(c, v, lo, mid - 1)

\* c / sqrt(v) rounded to 3 decimals, in thousandths (numpy rounds a tie to
\* the even neighbour); |c| <= sqrt(v) and v > 0.
Round3(c, v) ==
    LET k == Bisect(c, v, 0, Scale)
        tie == k > 0 /\ (2 * k - 1) * (2 * k - 1) * v = 4 * Scale * Scale * c * c
        mag == IF tie /\ k % 2 = 1 THEN k - 1 ELSE k
    IN  IF c < 0 THEN 0 - mag ELSE mag

\* Faulty variant of Pearson: a zero variance gives 0 instead of NaN.
PearsonZeroFilled(df, a, b) ==
    LET both == SelectSeq(df.rows, LAMBDA r : Cell(r, a) # NaN /\ Cell(r, b) # NaN)
        n    == Len(both)
        xs   == [i \in 1..n |-> Cell(both[i], a)[1]]
        ys   == [i \in 1..n |-> Cell(both[i], b)[1]]
        sx   == SumSeq(xs)
        sy   == SumSeq(ys)
        cxy  == n * SumSeq([i \in 1..n |-> xs[i] * ys[i]]) - sx * sy
        vx   == n * SumSeq([i \in 1..n |-> xs[i] * xs[i]]) - sx * sx
        vy   == n * SumSeq([i \in 1..n |-> ys[i] * ys[i]]) - sy * sy
    IN  IF n = 0 THEN NaN
        ELSE IF vx * vy = 0 THEN <<0>> ELSE <<Round3(cxy, vx * vy)>>

\* DataFrame.corr() entry for columns a and b: Pearson's r over the rows
\* where both are present (min_periods = 1); NaN when there is no such row
\* or either column has zero variance over them (the divisor is 0).
Pearson(df, a, b) ==
    LET both == SelectSeq(df.rows, LAMBDA r : Cell(r, a) # NaN /\ Cell(r, b) # NaN)
        n    == Len(both)
        xs   == [i \in 1..n |-> Cell(both[i], a)[1]]
        ys   == [i \in 1..n |-> Cell(both[i], b)[1]]
        sx   == SumSeq(xs)
        sy   == SumSeq(ys)
        cxy  == n * SumSeq([i \in 1..n |-> xs[i] * ys[i]]) - sx * sy
        vx   == n * SumSeq([i \in 1..n |-> xs[i] * xs[i]]) - sx * sx
        vy   == n * SumSeq([i \in 1..n |-> ys[i] * ys[i]]) - sy * sy
    IN  IF n = 0 \/ vx * vy = 0 THEN NaN ELSE <<Round3(cxy, vx * vy)>>

\* The entries of row i of the upper triangle, from column j on.
RECURSIVE UpperRow(_, _, _, _)
UpperRow(df, features, i, j) ==
    IF j > Len(features) THEN << >>
    ELSE <<Pearson(df, features[i], features[j])>>
             \o UpperRow(df, features, i, j + 1)

\* The upper triangle, from row i on.
RECURSIVE UpperTriangle(_, _, _)
UpperTriangle(df, features, i) ==
    IF i > Len(features) THEN << >>
    ELSE <<UpperRow(df, features, i, i)>> \o UpperTriangle(df, features, i + 1)

\* Line 84: mm_sub[features].corr().round(3).values.  pandas computes each
\* pair of columns once, for the upper triangle, and stores the result at
\* [i, j] and at [j, i].
Corr(df, features) ==
    LET upper == UpperTriangle(df, features, 1)
    IN  [i \in 1..Len(features) |->
           [j \in 1..Len(features) |->
              IF i <= j THEN upper[i][j - i + 1] ELSE upper[j][i - j + 1]]]

\* Lines 81-92.
Heatmap(df) ==
    LET features == SelectSeq(selected_features,
                              LAMBDA f : f \in Range(df.columns))
    IN  [z |-> Corr(df, features), x |-> features, y |-> features]

(***************************************************************************)
(* Overview, histogram and scatter plot.                                   *)
(***************************************************************************)
\* DataFrame.head() at line 20 shows the first 5 rows.
HeadRows == 5

\* Faulty variant of Overview: the overview of the table after cleaning.
OverviewAfterCleaning(mm) ==
    LET t == FilterSeason(CleanBeforeSeason(mm))
    IN  [shape |-> <<Len(t.rows), Len(t.columns)>>,
         head |-> SubSeq(t.rows, 1, Min(HeadRows, Len(t.rows))),
         describe |-> [k \in 1..Len(t.columns) |->
                         Len(SelectSeq(t.rows,
                               LAMBDA r : Cell(r, t.columns[k]) # NaN))]]

\* Lines 19-22: the shape, the head and describe()'s count of present
\* values per column of the table read from the file.
Overview(mm) ==
    [shape |-> <<Len(mm.rows), Len(mm.columns)>>,
     head |-> SubSeq(mm.rows, 1, Min(HeadRows, Len(mm.rows))),
     describe |-> [k \in 1..Len(mm.columns) |->
                     Len(SelectSeq(mm.rows,
                           LAMBDA r : Cell(r, mm.columns[k]) # NaN))]]

\* Line 113: the bin count passed to px.histogram.
nbins == 30

\* px.histogram / px.scatter raise ValueError for a column name that is not
\* a column of the data frame.
NotAColumn(df, col) == col \notin Range(df.columns)

\* Line 113.
Histogram(df, col) ==
    [x |-> col, nbins |-> nbins,
     values |-> [i \in 1..Len(df.rows) |-> Cell(df.rows[i], col)]]

\* Line 128: the colour category of a label.
Colour(cell) ==
    IF cell = <<1>> THEN <<"Made NCAA Tournament">>
    ELSE IF cell = <<0>> THEN <<"Did Not Qualify">> ELSE NaN

\* Lines 124-135.
Scatter(df, xc, yc) ==
    [x |-> xc, y |-> yc,
     points |-> [i \in 1..Len(df.rows) |->
                   [x |-> Cell(df.rows[i], xc), y |-> Cell(df.rows[i], yc),
                    color |-> Colour(Cell(df.rows[i], "March Madness?")),
                    Season |-> Cell(df.rows[i], "Season"),
                    School |-> Cell(df.rows[i], "School")]]]

\* Faulty variant of Selectbox: the widget's session value is ignored.
SelectboxDefaultOnly(state, index) == opts[index + 1]

\* st.selectbox(options=opts, index=index): the widget's value in the
\* session if it has one, else the option at index, which it then keeps.
Selectbox(state, index) == IF state = << >> THEN opts[index + 1] ELSE state[1]

(***************************************************************************)
(* One run of the script, top to bottom, with the session's widget state   *)
(* h, x, y.  An uncaught exception ends the run: the runtime shows it on   *)
(* the page and nothing after the raising line is rendered.                *)
(***************************************************************************)
Script(h, x, y) ==
    LET mm == ReadCsv(file)
    IN  /\ file' = file
        /\ overview' = <<Overview(mm)>>
        /\ IF KeyErrorAtLoc(mm)
           THEN /\ status' = "error"
                /\ exception' = <<"KeyError">>
                /\ missing_map' = << >>
                /\ mm_sub' = << >>
                /\ heatmap' = << >>
                /\ fig_hist' = << >>
                /\ fig_scatter' = << >>
                /\ plot_col' = h
                /\ x_sc' = x
                /\ y_sc' = y
           ELSE LET pre == CleanBeforeSeason(mm)
                    sub == FilterSeason(pre)
                    pc  == Selectbox(h, 0)
                    xs  == Selectbox(x, 0)
                    ys  == Selectbox(y, 1)
                IN  /\ missing_map' = <<MissingMap(pre)>>
                    /\ mm_sub' = <<sub>>
                    /\ heatmap' = <<Heatmap(sub)>>
                    /\ plot_col' = <<pc>>
                    /\ IF NotAColumn(sub, pc)
                       THEN /\ status' = "error"
                            /\ exception' = <<"ValueError">>
                            /\ fig_hist' = << >>
                            /\ fig_scatter' = << >>
                            /\ x_sc' = x
                            /\ y_sc' = y
                       ELSE /\ fig_hist' = <<Histogram(sub, pc)>>
                            /\ x_sc' = <<xs>>
                            /\ y_sc' = <<ys>>
                            /\ IF \/ NotAColumn(sub, xs)
                                  \/ NotAColumn(sub, ys)
                                  \/ NotAColumn(sub, "March Madness?")
                                  \/ NotAColumn(sub, "Season")
                                  \/ NotAColumn(sub, "School")
                               THEN /\ status' = "error"
                                    /\ exception' = <<"ValueError">>
                                    /\ fig_scatter' = << >>
                               ELSE /\ status' = "ok"
                                    /\ exception' = << >>
                                    /\ fig_scatter' = <<Scatter(sub, xs, ys)>>

NothingPicked == [hist |-> << >>, x |-> << >>, y |-> << >>]

\* The first run of a session.
FirstRun ==
    /\ status = "idle"
    /\ Script(plot_col, x_sc, y_sc)
    /\ UNCHANGED picked

\* A rerun with the widget state as it is (the runtime's Rerun command).
Rerun ==
    /\ status # "idle"
    /\ Script(plot_col, x_sc, y_sc)
    /\ UNCHANGED picked

\* A browser reload: a new session, whose widgets have no state yet.
NewSession ==
    /\ status # "idle"
    /\ Script(<< >>, << >>, << >>)
    /\ picked' = NothingPicked

\* The user picks another option in a dropdown: the runtime stores it in
\* the widget's state and reruns the script.
SelectHist(v) ==
    /\ status = "ok"
    /\ <<v>> # plot_col
    /\ Script(<<v>>, x_sc, y_sc)
    /\ picked' = [picked EXCEPT !.hist = <<v>>]

SelectX(v) ==
    /\ status = "ok"
    /\ <<v>> # x_sc
    /\ Script(plot_col, <<v>>, y_sc)
    /\ picked' = [picked EXCEPT !.x = <<v>>]

SelectY(v) ==
    /\ status = "ok"
    /\ <<v>> # y_sc
    /\ Script(plot_col, x_sc, <<v>>)
    /\ picked' = [picked EXCEPT !.y = <<v>>]

(***************************************************************************)
(* Input files.                                                            *)
(***************************************************************************)
\* The columns of a well-formed file: the required ones and one more.
FileColumns == LocColumns \o << "Seed" >>

\* A row of the file, from the cells that decide the filters and the label;
\* the other cells follow from them.  PGOR and PGDR are missing up to the
\* 2006 season (line 61).
RawRow(tw, season, efg, de, pst) ==
    [c \in Range(FileColumns) |->
       CASE c = "Tournament Winner?" -> tw
         [] c = "Season" -> season
         [] c = "eFGPct" -> efg
         [] c = "Adjusted Defensive Efficiency" -> de
         [] c = "Post-Season Tournament" -> pst
         [] c = "Mapped ESPN Team Name" -> <<"Team">>
         [] c = "Adjusted Offensive Efficiency" ->
                IF pst = <<"March Madness">> THEN <<2>> ELSE <<1>>
         [] c = "TOPct" -> <<1>>
         [] c = "AdjTempo" -> IF pst = <<"NIT">> THEN <<2>> ELSE <<1>>
         [] c = "PGOR" ->
                IF season = NaN \/ season[1] <= SeasonCutoff THEN NaN
                ELSE IF pst = <<"March Madness">> THEN <<2>>
                ELSE IF pst = <<"NIT">> THEN <<1>> ELSE <<0>>
         [] c = "PGDR" ->
                IF season = NaN \/ season[1] <= SeasonCutoff \/ pst = NaN
                THEN NaN ELSE <<2>>
         [] OTHER -> <<1>>]

\* eFGPct and AdjDE: both nonzero, or one of them zero.
ShootingCells == { <<1, 1>>, <<0, 1>>, <<1, 0>> }

RowDomain ==
    { RawRow(tw, season, <<sh[1]>>, <<sh[2]>>, pst) :
        tw \in { <<"No">>, <<"Yes">> },
        season \in { <<2006>>, <<2007>> },
        sh \in ShootingCells,
        pst \in { <<"March Madness">>, <<"NIT">>, NaN } }

SeqsUpTo(S, n) == UNION { [1..k -> S] : k \in 0..n }

\* The file without column c.
Without(f, c) ==
    [columns |-> SelectSeq(f.columns, LAMBDA d : d # c),
     rows |-> [i \in 1..Len(f.rows) |->
                 [d \in Range(f.columns) \ {c} |-> f.rows[i][d]]]]

WellFormedFiles ==
    { [columns |-> FileColumns, rows |-> rs] : rs \in SeqsUpTo(RowDomain, MaxRows) }

MalformedFiles ==
    { Without([columns |-> FileColumns, rows |-> rs], c) :
        rs \in SeqsUpTo(RowDomain, 1), c \in Range(LocColumns) }

InitSession(files) ==
    /\ file \in files
    /\ plot_col = << >>
    /\ x_sc = << >>
    /\ y_sc = << >>
    /\ status = "idle"
    /\ exception = << >>
    /\ overview = << >>
    /\ missing_map = << >>
    /\ mm_sub = << >>
    /\ heatmap = << >>
    /\ fig_hist = << >>
    /\ fig_scatter = << >>
    /\ picked = NothingPicked

(***************************************************************************)
(* SpecPipeline: every file of up to MaxRows rows, loaded and reloaded.    *)
(***************************************************************************)
InitPipeline == InitSession(WellFormedFiles \cup MalformedFiles)

NextPipeline == FirstRun

SpecPipeline == InitPipeline /\ [][NextPipeline]_vars

(***************************************************************************)
(* Spec: an interactive session over a few files: a file whose rows meet   *)
(* every filter case, a file with no rows, and a file without the PGOR     *)
(* column.                                                                 *)
(***************************************************************************)
MixedRows ==
    << RawRow(<<"No">>, <<2007>>, <<2>>, <<1>>, <<"March Madness">>),
       RawRow(<<"No">>, <<2006>>, <<1>>, <<1>>, <<"NIT">>),
       RawRow(<<"No">>, <<2008>>, NaN, <<2>>, <<"NIT">>),
       RawRow(<<"Yes">>, <<2008>>, <<1>>, <<1>>, <<"March Madness">>),
       RawRow(<<"No">>, <<2009>>, <<1>>, <<2>>, NaN) >>

SessionFiles ==
    { [columns |-> FileColumns, rows |-> MixedRows],
      [columns |-> FileColumns, rows |-> << >>],
      Without([columns |-> FileColumns, rows |-> SubSeq(MixedRows, 1, 2)],
              "PGOR") }

Init == InitSession(SessionFiles)

Next ==
    \/ FirstRun
    \/ Rerun
    \/ NewSession
    \/ \E v \in Range(opts) : SelectHist(v)
    \/ \E v \in Range(opts) : SelectX(v)
    \/ \E v \in Range(opts) : SelectY(v)

Spec == Init /\ [][Next]_vars

(***************************************************************************)
(* SpecTicks: files of up to MaxTickRows rows that all reach the           *)
(* missing-value map, the first k of them from the 2006 season.            *)
(***************************************************************************)
TickFiles ==
    { [columns |-> FileColumns,
       rows |-> [i \in 1..n |->
                   RawRow(<<"No">>, IF i <= k THEN <<2006>> ELSE <<2007>>,
                          <<1>>, <<1>>, <<"NIT">>)]] :
        n \in 0..MaxTickRows, k \in 0..MaxTickRows }

InitTicks == InitSession(TickFiles)

SpecTicks == InitTicks /\ [][NextPipeline]_vars

(***************************************************************************)
(* Properties.  They are stated over the file itself, not over the         *)
(* pipeline's operators.                                                   *)
(***************************************************************************)
\* Cell c of the file's i-th row (i counts from 1; its index label is i - 1).
RawCell(i, c) == file.rows[i][c]

RawIndices == [i \in 1..Len(file.rows) |-> i]

\* The file's row is not a conference tournament winner and has no zero
\* eFGPct or Adjusted Defensive Efficiency.
PassesRowFilters(i) ==
    /\ RawCell(i, "Tournament Winner?") = <<"No">>
    /\ RawCell(i, "eFGPct") # <<0>>
    /\ RawCell(i, "Adjusted Defensive Efficiency") # <<0>>

Qualifies(i) ==
    /\ PassesRowFilters(i)
    /\ RawCell(i, "Season") # << >>
    /\ RawCell(i, "Season")[1] > 2006

QualifyingRows == SelectSeq(RawIndices, Qualifies)

\* The file's column that a column of the cleaned table carries.
RawName(c) ==
    CASE c = "AdjOE" -> "Adjusted Offensive Efficiency"
      [] c = "AdjDE" -> "Adjusted Defensive Efficiency"
      [] c = "School" -> "Mapped ESPN Team Name"
      [] c = "March Madness?" -> "Post-Season Tournament"
      [] OTHER -> c

CarriedColumns ==
    { "Season", "School", "AdjOE", "AdjDE", "eFGPct", "TOPct", "AdjTempo",
      "PGOR", "PGDR" }

\* Row k of table t is the file's row i: same index label, same cells.
IsRawRow(t, k, i) ==
    /\ t.rows[k].idx = i - 1
    /\ \A c \in CarriedColumns : t.rows[k].cells[c] = RawCell(i, RawName(c))

\* C1: the cleaned table behind the heatmap, the histogram and the scatter
\* plot holds exactly the file's rows with 'Tournament Winner?' = 'No',
\* eFGPct not 0, Adjusted Defensive Efficiency not 0 and Season > 2006, each
\* once and in file order.
C1_CleanedRowsAreTheQualifyingRows ==
    status = "ok" =>
        LET t == mm_sub[1]
            q == QualifyingRows
        IN  /\ Len(t.rows) = Len(q)
            /\ \A k \in 1..Len(q) : IsRawRow(t, k, q[k])
            /\ heatmap[1] = Heatmap(t)
            /\ Len(fig_hist[1].values) = Len(q)
            /\ Len(fig_scatter[1].points) = Len(q)
            /\ \A k \in 1..Len(q) :
                 fig_scatter[1].points[k].Season = RawCell(q[k], "Season")

\* A two-row file whose second row alone qualifies: the first is from 2006.
C1_Witness ==
    /\ status = "ok"
    /\ Len(file.rows) = 2
    /\ PassesRowFilters(1) /\ RawCell(1, "Season") = <<2006>>
    /\ Len(mm_sub[1].rows) = 1
    /\ mm_sub[1].rows[1].idx = 1

\* C2: in the cleaned table 'March Madness?' is 0 or 1, and it is 1 exactly
\* when the file's 'Post-Season Tournament' is 'March Madness'; any other
\* value, a missing one too, gives 0.
C2_LabelIsBinary ==
    mm_sub # << >> =>
        \A k \in 1..Len(mm_sub[1].rows) :
            LET r == mm_sub[1].rows[k]
                label == r.cells["March Madness?"]
            IN  /\ label \in { <<0>>, <<1>> }
                /\ label = <<1>> <=>
                     RawCell(r.idx + 1, "Post-Season Tournament")
                         = <<"March Madness">>

\* A cleaned table with a March Madness row (1), then a row whose
\* tournament is missing (0).
C2_Witness ==
    /\ mm_sub # << >>
    /\ Len(mm_sub[1].rows) = 2
    /\ mm_sub[1].rows[1].cells["March Madness?"] = <<1>>
    /\ mm_sub[1].rows[2].cells["March Madness?"] = <<0>>
    /\ RawCell(mm_sub[1].rows[2].idx + 1, "Post-Season Tournament") = << >>

\* C3 as claimed: every row of the missing-value map has Season > 2006.
C3_MapRowsAfter2006 ==
    missing_map # << >> =>
        \A k \in 1..Len(missing_map[1].frame.rows) :
            LET season == missing_map[1].frame.rows[k].cells["Season"]
            IN  season # << >> /\ season[1] > 2006

\* C3, amended: the missing-value map is drawn before the Season filter.  Its
\* rows are the file's rows that are not tournament winners and have no zero
\* eFGPct or AdjDE, whatever their Season, one grid row each; the cleaned
\* table is the part of them with Season > 2006.
C3_MapRowsAreBeforeSeasonFilter ==
    missing_map # << >> =>
        LET m == missing_map[1]
            q == SelectSeq(RawIndices, PassesRowFilters)
        IN  /\ Len(m.frame.rows) = Len(q)
            /\ Len(m.nan_array) = Len(q)
            /\ \A k \in 1..Len(q) :
                 /\ IsRawRow(m.frame, k, q[k])
                 /\ \A j \in 1..Len(m.yticklabels) :
                      m.nan_array[k][j] = 1 <=>
                          m.frame.rows[k].cells[m.yticklabels[j]] = << >>
            /\ Len(mm_sub[1].rows) = Len(QualifyingRows)

\* The map shows a row of the 2006 season, with PGOR missing, that the
\* cleaned table does not hold.
C3_Witness ==
    /\ missing_map # << >>
    /\ Len(missing_map[1].frame.rows) = 2
    /\ missing_map[1].frame.rows[1].cells["Season"] = <<2006>>
    /\ missing_map[1].frame.rows[1].cells["PGOR"] = << >>
    /\ Len(mm_sub[1].rows) = 1

\* C4 as claimed: the Overview reports the shape and the rows of the
\* cleaned table.
C4_OverviewOfCleanedTable ==
    (overview # << >> /\ mm_sub # << >>) =>
        /\ overview[1].shape = <<Len(mm_sub[1].rows), Len(mm_sub[1].columns)>>
        /\ Len(overview[1].head) <= Len(mm_sub[1].rows)
        /\ \A k \in 1..Len(overview[1].head) :
             overview[1].head[k].idx = mm_sub[1].rows[k].idx

\* C4, amended: the Overview is a function of the table as read from the
\* file, before any filter, projection or rename: its shape is the file's
\* row and column counts and its head is the file's first rows (at most 5),
\* with the file's column names.
C4_OverviewOfRawTable ==
    overview # << >> =>
        /\ overview[1].shape = <<Len(file.rows), Len(file.columns)>>
        /\ Len(overview[1].head) = Min(5, Len(file.rows))
        /\ \A k \in 1..Len(overview[1].head) :
             /\ overview[1].head[k].idx = k - 1
             /\ overview[1].head[k].cells = file.rows[k]
        /\ \A j \in 1..Len(file.columns) :
             overview[1].describe[j] =
                 Cardinality({ i \in 1..Len(file.rows) :
                                 RawCell(i, file.columns[j]) # << >> })

\* An Overview of a two-row file of which the cleaned table keeps no row.
C4_Witness ==
    /\ status = "ok"
    /\ overview[1].shape = <<2, 12>>
    /\ Len(overview[1].head) = 2
    /\ Len(mm_sub[1].rows) = 0

\* The value a dropdown holds: the user's last pick, or its default.
LastPicked(pick, default) == IF pick = << >> THEN default ELSE pick[1]

\* C5: each dropdown holds the last value picked for it in the session, or
\* its default (histogram AdjOE, X AdjOE, Y AdjDE) if never changed; a pick
\* in one leaves the other two as they were; every value is one of the 8
\* options; and the histogram and the scatter plot of each run are drawn
\* with the current values.
C5_DropdownsHoldLastPick ==
    status = "ok" =>
        /\ plot_col = <<LastPicked(picked.hist, "AdjOE")>>
        /\ x_sc = <<LastPicked(picked.x, "AdjOE")>>
        /\ y_sc = <<LastPicked(picked.y, "AdjDE")>>
        /\ { plot_col[1], x_sc[1], y_sc[1] } \subseteq
               { "AdjOE", "AdjDE", "eFGPct", "TOPct", "AdjTempo", "PGOR",
                 "PGDR", "March Madness?" }
        /\ fig_hist[1].x = plot_col[1]
        /\ fig_scatter[1].x = x_sc[1]
        /\ fig_scatter[1].y = y_sc[1]

\* The histogram and Y dropdowns were changed, the X dropdown never.
C5_Witness ==
    /\ status = "ok"
    /\ picked = [hist |-> <<"PGOR">>, x |-> << >>, y |-> <<"TOPct">>]
    /\ fig_hist[1].x = "PGOR"
    /\ fig_scatter[1].x = "AdjOE"
    /\ fig_scatter[1].y = "TOPct"

\* C6: no interaction changes the cleaned table: every rerun, whatever the
\* dropdowns hold and whatever came before, produces the table of the run
\* before it, and so of the first run.
C6_RerunKeepsCleanedTable ==
    [][status # "idle" => (mm_sub' = mm_sub /\ file' = file)]_vars

\* All three dropdowns were changed over a cleaned table of three rows.
C6_Witness ==
    /\ status = "ok"
    /\ picked.hist = <<"March Madness?">>
    /\ picked.x = <<"PGDR">>
    /\ picked.y = <<"eFGPct">>
    /\ Len(mm_sub[1].rows) = 3

\* C7: the missing-value map of a table of n rows gets min(10, n) x ticks,
\* each an integer in 0..n-1, strictly increasing, and for n >= 2 the first
\* is 0 and the last n - 1.
C7_XTicks ==
    missing_map # << >> =>
        LET n == Len(missing_map[1].nan_array)
            t == missing_map[1].xticks
        IN  /\ Len(t) = (IF n < 10 THEN n ELSE 10)
            /\ \A k \in 1..Len(t) : t[k] \in 0..(n - 1)
            /\ \A k \in 1..(Len(t) - 1) : t[k] < t[k + 1]
            /\ n >= 2 => (t[1] = 0 /\ t[Len(t)] = n - 1)

\* 24 rows: ten ticks, 23/9 apart before truncation.
C7_Witness ==
    /\ missing_map # << >>
    /\ Len(missing_map[1].nan_array) = 24
    /\ missing_map[1].xticks = <<0, 2, 5, 7, 10, 12, 15, 17, 20, 23>>

RequiredColumns ==
    { "Season", "Mapped ESPN Team Name", "Adjusted Offensive Efficiency",
      "Adjusted Defensive Efficiency", "eFGPct", "TOPct", "AdjTempo", "PGOR",
      "PGDR", "Tournament Winner?", "Post-Season Tournament" }

\* C8: when the file lacks a required column the run fails at the first
\* filter/projection, the exception is shown on the page, and none of the
\* missing-value map, heatmap, histogram and scatter plot is rendered.
C8_MissingColumnFails ==
    (status # "idle" /\ ~(RequiredColumns \subseteq Range(file.columns))) =>
        /\ status = "error"
        /\ exception = <<"KeyError">>
        /\ missing_map = << >>
        /\ mm_sub = << >>
        /\ heatmap = << >>
        /\ fig_hist = << >>
        /\ fig_scatter = << >>

\* A run over a file without eFGPct: the Overview is up, then the error.
C8_Witness ==
    /\ status = "error"
    /\ "eFGPct" \notin Range(file.columns)
    /\ Len(file.rows) = 1
    /\ overview # << >>
    /\ exception # << >>

HeatmapColumns ==
    << "eFGPct", "TOPct", "AdjTempo", "AdjOE", "AdjDE", "PGOR", "PGDR",
       "March Madness?" >>

IsSquare8(z) == Len(z) = 8 /\ \A i \in 1..8 : Len(z[i]) = 8

\* C9 as claimed: the matrix is 8 x 8 and symmetric and every diagonal
\* entry is 1.0, also for a constant or missing column or an empty table.
C9_DiagonalAllOnes ==
    heatmap # << >> =>
        LET z == heatmap[1].z
        IN  /\ IsSquare8(z)
            /\ \A i, j \in 1..8 : z[i][j] = z[j][i]
            /\ \A i \in 1..8 : z[i][i] = <<1000>>

\* The values of column c present in the cleaned table.
PresentValues(c) ==
    { mm_sub[1].rows[k].cells[c][1] :
        k \in { k \in 1..Len(mm_sub[1].rows) :
                  mm_sub[1].rows[k].cells[c] # << >> } }

\* C9, amended: the matrix is 8 x 8 over the eight columns and symmetric; a
\* diagonal entry is 1.0 when its column takes at least two different
\* values in the cleaned table, and is missing (NaN) otherwise: a constant
\* column, a column with fewer than two values present, an empty table.
C9_DiagonalOneOrMissing ==
    heatmap # << >> =>
        LET z == heatmap[1].z
        IN  /\ IsSquare8(z)
            /\ heatmap[1].x = HeatmapColumns
            /\ heatmap[1].y = HeatmapColumns
            /\ \A i, j \in 1..8 : z[i][j] = z[j][i]
            /\ \A i \in 1..8 :
                 z[i][i] = IF Cardinality(PresentValues(HeatmapColumns[i])) >= 2
                           THEN <<1000>> ELSE << >>

\* Two cleaned rows with labels 1 and 0: the label's diagonal entry is 1.0,
\* that of the constant TOPct is missing, and AdjOE correlates fully.
C9_Witness ==
    /\ heatmap # << >>
    /\ Len(mm_sub[1].rows) = 2
    /\ heatmap[1].z[8][8] = <<1000>>
    /\ heatmap[1].z[2][2] = << >>
    /\ heatmap[1].z[4][8] = <<1000>>
    /\ heatmap[1].z[3][8] = <<0 - 1000>>

\* C10: every one of the 8 options names a column of the cleaned table, so
\* no selection fails, and the histogram of the selected option holds that
\* column's values in the qualifying rows (Season > 2006 included), in
\* order.
C10_HistogramOfCleanedColumn ==
    (status # "idle" /\ RequiredColumns \subseteq Range(file.columns)) =>
        LET q == QualifyingRows
            h == fig_hist[1]
        IN  /\ status = "ok"
            /\ Range(HeatmapColumns) \subseteq Range(mm_sub[1].columns)
            /\ h.x = plot_col[1]
            /\ h.x \in Range(HeatmapColumns)
            /\ Len(h.values) = Len(q)
            /\ \A k \in 1..Len(q) :
                 h.values[k] =
                     IF h.x = "March Madness?"
                     THEN (IF RawCell(q[k], "Post-Season Tournament")
                                 = <<"March Madness">> THEN <<1>> ELSE <<0>>)
                     ELSE RawCell(q[k], RawName(h.x))
            /\ { fig_scatter[1].x, fig_scatter[1].y } \subseteq
                   Range(mm_sub[1].columns)

\* The histogram of AdjTempo over the three qualifying rows of the five.
C10_Witness ==
    /\ status = "ok"
    /\ Len(file.rows) = 5
    /\ fig_hist[1].x = "AdjTempo"
    /\ fig_hist[1].values = << <<1>>, <<2>>, <<1>> >>

====
